---- MODULE Spec2Model ----
(***************************************************************************)
(* Halyra IDE: the interactive process console of main.py and the          *)
(* InteractiveConsole widget of components.py.                             *)
(*                                                                         *)
(* Threads of the program that appear here:                                *)
(*   - the GUI thread: run_code, the Clear button, key events of the       *)
(*     console, and the slots of the queued signals append_text and        *)
(*     request_input (uiq is the GUI thread's queue of those signals);     *)
(*   - per accepted run_code call one worker thread, which spawns the      *)
(*     child and starts two read_stream threads and one _pump_stdin        *)
(*     thread;                                                             *)
(*   - per submitted line (while a child is alive) one delayed_input       *)
(*     thread.                                                             *)
(* Text is a sequence of one-character strings.                            *)
(***************************************************************************)
EXTENDS Integers, Sequences, FiniteSets, TLC

\* ---------------------------------------------------------------- bounds
\* accepted run_code calls (worker threads ever started)
MaxRuns == 2
\* events of the environment, all kinds together: run_code calls, presses
\* of the Clear button, key events that change the console (an ignored key
\* changes nothing), characters the children write to their pipes
MaxEvents == 3

\* characters the child of a test.py run writes to its two pipes together
MaxTwChars == 3
\* run_code calls of test.py
MaxTwRuns == 1
\* _run_pip_command calls
MaxPips == 1
\* _load_installed threads started
MaxLoads == 2
\* characters one pip process writes to its two pipes together
MaxPipChars == 2
\* characters a pipe holds before a write to it blocks
PipeCap == 1
\* entries of one listing of pip list
MaxPkgs == 1
\* run_code calls of test.py when its runs are followed side by side
MaxInRuns == 2
\* lines submitted from the console of test.py
MaxLines == 1

\* ------------------------------------------------------------ characters
NL == "\n"
\* U+2029, which QTextCursor.selectedText() gives for a line break
PS == "P"
\* a character a child writes
OutChar == "a"
\* the character the user types
KeyChar == "u"
\* stands for the text of the warning line, "A process is already running."
WarnChar == "!"
\* stands for the text of the line "Execution error: {e}"
ErrChar == "x"

\* main.py:496, the warning line of a rejected run_code
WarnText == <<WarnChar, NL>>
\* main.py:562, the error line of the worker's except branch
ErrText == <<NL, ErrChar, NL>>

Runs == 1..MaxRuns
Streams == {"stdout", "stderr"}
\* the value None of current_process
None == 0

\* the run_code calls of test.py followed side by side, and their children
Execs == 1..MaxInRuns
\* execute holds no line
NoInput == [text |-> <<>>, runs |-> 0, alive |-> FALSE]

\* the calls of _run_pip_command
Pips == 1..MaxPips
\* no installed_loaded signal was processed
NotLoaded == [packages |-> <<>>, error |-> <<>>, had |-> 0, n |-> 0]
\* a call that was not made
NoArgs == [cmd |-> "none", name |-> <<>>]

\* _pump_stdin holds no line
NoLine == [id |-> 0, text |-> <<>>]

Keys == {"Return", "Backspace", "Left", "Home", "Up", "Char"}

\* all texts over S of length at most n
RECURSIVE TextsUpTo(_, _)
TextsUpTo(S, n) ==
    IF n = 0 THEN {<<>>}
    ELSE LET T == TextsUpTo(S, n - 1)
         IN T \cup {Append(t, c) : t \in {u \in T : Len(u) = n - 1}, c \in S}

\* ---------------------------------------------------------- text helpers
\* index of the first line terminator of s, 0 when there is none
RECURSIVE IndexOfNL(_)
IndexOfNL(s) ==
    IF s = <<>> THEN 0
    ELSE IF Head(s) = NL THEN 1
    ELSE LET k == IndexOfNL(Tail(s)) IN IF k = 0 THEN 0 ELSE k + 1

\* the line that  for line in stream  yields next: through the first
\* terminator, or the rest of the stream when there is none (at end of file)
NextLine_DropsTerminator(s) ==
    LET k == IndexOfNL(s)
    IN IF k = 0 THEN s ELSE SubSeq(s, 1, k - 1)
NextLine(s) ==
    LET k == IndexOfNL(s)
    IN IF k = 0 THEN s ELSE SubSeq(s, 1, k)

\* the stream after reading the line NextLine(s)
AfterLine(s) ==
    LET k == IndexOfNL(s)
    IN IF k = 0 THEN <<>> ELSE SubSeq(s, k + 1, Len(s))

\* QTextCursor.selectedText(): a line break of the selection comes out as
\* U+2029, not as "\n"
SelectedText(s) == [i \in 1..Len(s) |-> IF s[i] = NL THEN PS ELSE s[i]]

\* start offset of the line that holds offset pos of text b
RECURSIVE LineStart(_, _)
LineStart(b, pos) ==
    IF pos = 0 THEN 0
    ELSE IF b[pos] = NL THEN pos
    ELSE LineStart(b, pos - 1)

\* QTextCursor.MoveOperation.Up: same column of the previous line, clipped
\* to that line's length; no move on the first line
MoveUp(b, pos) ==
    LET ls == LineStart(b, pos)
    IN IF ls = 0 THEN pos
       ELSE LET pls == LineStart(b, ls - 1)
                col == pos - ls
                plen == (ls - 1) - pls
            IN pls + (IF col < plen THEN col ELSE plen)

\* ----------------------------------------------------------------- state
VARIABLES
    \* HalyraIDE
    current_process,  \* None or the run whose Popen object it holds
    input_queue,      \* the queue.Queue self.input_queue refers to
    nextRun,          \* the next worker to start
    events,           \* events of the environment so far
    filesWritten,     \* files written by build_run_command
    overlap,          \* a run_code call was accepted while a run was in progress
    \* per run
    wpc,              \* position of worker()
    child,            \* "none", "alive" or "exited"
    script,           \* per stream, all the child writes to it
    rem,              \* per stream, what the reader has not read yet
    emitted,          \* per stream, concatenation of the emitted chunks
    rdr,              \* per stream, "idle", "run" or "done"
    ppc,              \* position of _pump_stdin
    held,             \* the line _pump_stdin took from the queue
    stdinLog,         \* what was written to the child's stdin
    closeLog,         \* the pipe endpoints closed, in order
    closedAlive,      \* an endpoint was closed while the child was alive
    termCount,        \* times the worker's finally block ran
    \* GUI thread
    uiq,              \* queued signals from other threads
    delayed,          \* delayed_input threads sleeping
    \* InteractiveConsole
    buf,              \* the document's text
    caret,            \* position of the widget's text cursor
    waiting_for_input,
    readOnly,
    input_start_pos,
    \* the user
    subs,             \* the lines input_submitted carried, in order
    \* test.py and old.py: run_code and its execute thread
    tw_runs,          \* run_code calls that got past the compile check
    tw_pc,            \* position of execute()
    tw_current_process, \* self.current_process of test.py: None or the child
    tw_child,         \* "none", "alive" or "exited"
    tw_script,        \* per stream, all the child writes to it
    tw_todo,          \* per stream, what the child has still to write
    tw_pipe,          \* per stream, written by the child and not yet read
    out_pc,           \* position of read_stdout
    buffer,           \* read_stdout's buffer
    last_was_newline, \* read_stdout's last_was_newline
    err_pc,           \* position of read_stderr
    tw_emitted,       \* per stream, concatenation of the reader's chunks
    tw_finished,      \* the "[Execution finished ...]" line was emitted
    \* test.py and old.py: the runs of run_code side by side
    tw_input_queue,   \* self.input_queue, made once in __init__
    tw_lines,         \* lines submitted so far
    ex_pc,            \* per run, position of execute()
    ex_child,         \* per run, its child: "none", "alive" or "exited"
    ex_out,           \* per child, written to its stdout and not yet read
    ex_held,          \* per run, the line execute took from the queue
    ex_stdin,         \* per child, the lines written to its stdin, and by whom
    rd_pc,            \* per run, position of read_stdout
    rd_buffer,        \* per run, read_stdout's buffer
    rd_from,          \* per run, the children whose stdout read_stdout read
    \* main.py: PackageInstallerDialog
    dlg,              \* "closed" or "open"
    package_input,    \* text of the line edit
    installed_list,   \* names of the items of the list widget, in order
    status_label,     \* what the status label shows
    loads,            \* _load_installed threads started so far
    loading,          \* _load_installed threads running
    loadq,            \* queued installed_loaded signals
    lastLoaded,       \* the installed_loaded signal processed last
    \* main.py: _run_pip_command, per call
    nextPip,          \* the next call
    pip_args,         \* its args: the pip command and the package name
    pip_pc,           \* position of run()
    pip_child,        \* "none", "alive" or "exited"
    pip_script,       \* per stream, all that pip writes to it
    pip_todo,         \* per stream, what pip has still to write
    pip_pipe,         \* per stream, written by pip and not yet read
    pip_line,         \* what the file object has read of an unfinished line
    pip_emitted,      \* per stream, concatenation of the emitted lines
    pip_finish,       \* times on_finish was scheduled
    timerq            \* callbacks scheduled with QTimer.singleShot(0, ...)

runnerVars == <<current_process, input_queue, nextRun, filesWritten, overlap>>
workerVars == <<wpc, child, script, termCount>>
readerVars == <<rem, emitted, rdr>>
pumpVars == <<ppc, held, stdinLog>>
closeVars == <<closeLog, closedAlive>>
uiVars == <<uiq, delayed>>
consoleVars == <<buf, caret, waiting_for_input, readOnly, input_start_pos>>
userVars == <<events, subs>>

\* all of main.py's console and run_code
ideVars == <<runnerVars, workerVars, readerVars, pumpVars, closeVars, uiVars,
             consoleVars, userVars>>
\* ideVars without the console and the queue of signals
backVars == <<runnerVars, workerVars, readerVars, pumpVars, closeVars, delayed,
              userVars>>

\* one run of test.py with its two readers
twRunVars == <<tw_pc, tw_child, tw_script, tw_todo, tw_pipe, out_pc, buffer,
               last_was_newline, err_pc, tw_emitted, tw_finished>>
\* the runs of test.py side by side
inVars == <<tw_input_queue, tw_lines, ex_pc, ex_child, ex_out, ex_held,
            ex_stdin, rd_pc, rd_buffer, rd_from>>
twVars == <<tw_runs, tw_current_process, twRunVars, inVars>>

dlgVars == <<dlg, package_input, installed_list, status_label, loads, loading,
             loadq, lastLoaded>>
pipVars == <<nextPip, pip_args, pip_pc, pip_child, pip_script, pip_todo,
             pip_pipe, pip_line, pip_emitted, pip_finish, timerq>>
pkgVars == <<dlgVars, pipVars>>

vars == <<ideVars, twVars, pkgVars>>

\* main.py:45-47 (HalyraIDE.__init__), components.py:410-413, main.py:331
Init ==
    /\ current_process = None
    /\ input_queue = <<>>
    /\ nextRun = 1
    /\ events = 0
    /\ filesWritten = 0
    /\ overlap = FALSE
    /\ wpc = [r \in Runs |-> "none"]
    /\ child = [r \in Runs |-> "none"]
    /\ script = [r \in Runs |-> [s \in Streams |-> <<>>]]
    /\ rem = [r \in Runs |-> [s \in Streams |-> <<>>]]
    /\ emitted = [r \in Runs |-> [s \in Streams |-> <<>>]]
    /\ rdr = [r \in Runs |-> [s \in Streams |-> "idle"]]
    /\ ppc = [r \in Runs |-> "idle"]
    /\ held = [r \in Runs |-> NoLine]
    /\ stdinLog = [r \in Runs |-> <<>>]
    /\ closeLog = [r \in Runs |-> <<>>]
    /\ closedAlive = [r \in Runs |-> FALSE]
    /\ termCount = [r \in Runs |-> 0]
    /\ uiq = <<>>
    /\ delayed = 0
    /\ buf = <<>>
    /\ caret = 0
    /\ waiting_for_input = FALSE
    /\ readOnly = TRUE
    /\ input_start_pos = 0
    /\ subs = <<>>
    \* test.py:45-46
    /\ tw_runs = 0
    /\ tw_pc = "none"
    /\ tw_current_process = None
    /\ tw_child = "none"
    /\ tw_script = [s \in Streams |-> <<>>]
    /\ tw_todo = [s \in Streams |-> <<>>]
    /\ tw_pipe = [s \in Streams |-> <<>>]
    /\ out_pc = "idle"
    /\ buffer = <<>>
    /\ last_was_newline = TRUE
    /\ err_pc = "idle"
    /\ tw_emitted = [s \in Streams |-> <<>>]
    /\ tw_finished = FALSE
    /\ tw_input_queue = <<>>
    /\ tw_lines = 0
    /\ ex_pc = [r \in Execs |-> "none"]
    /\ ex_child = [r \in Execs |-> "none"]
    /\ ex_out = [r \in Execs |-> <<>>]
    /\ ex_held = [r \in Execs |-> NoInput]
    /\ ex_stdin = [r \in Execs |-> <<>>]
    /\ rd_pc = [r \in Execs |-> "idle"]
    /\ rd_buffer = [r \in Execs |-> <<>>]
    /\ rd_from = [r \in Execs |-> {}]
    \* no PackageInstallerDialog yet, no pip command
    /\ dlg = "closed"
    /\ package_input = <<>>
    /\ installed_list = <<>>
    /\ status_label = "Ready"
    /\ loads = 0
    /\ loading = 0
    /\ loadq = <<>>
    /\ lastLoaded = NotLoaded
    /\ nextPip = 1
    /\ pip_args = [p \in Pips |-> NoArgs]
    /\ pip_pc = [p \in Pips |-> "none"]
    /\ pip_child = [p \in Pips |-> "none"]
    /\ pip_script = [p \in Pips |-> [s \in Streams |-> <<>>]]
    /\ pip_todo = [p \in Pips |-> [s \in Streams |-> <<>>]]
    /\ pip_pipe = [p \in Pips |-> [s \in Streams |-> <<>>]]
    /\ pip_line = [p \in Pips |-> <<>>]
    /\ pip_emitted = [p \in Pips |-> [s \in Streams |-> <<>>]]
    /\ pip_finish = [p \in Pips |-> 0]
    /\ timerq = <<>>

\* ------------------------------------------------------------ the console
\* main.py:771-779, append_console_text: a cursor of its own, moved to the
\* end, inserts the text; the widget's cursor moves along when it stands at
\* the point of insertion
AppendConsoleText(b, c, text) ==
    [buf |-> b \o text,
     caret |-> IF c = Len(b) THEN Len(b) + Len(text) ELSE c]

\* QPlainTextEdit.appendPlainText(""): a new block at the end, unless the
\* document is empty
AppendPlainTextEmpty(b) == IF b = <<>> THEN b ELSE Append(b, NL)

\* QTextCursor.setPosition(p): ignored when p is outside the document
SetPosition(b, c, p) == IF p <= Len(b) THEN p ELSE c

\* ------------------------------------------------------------ GUI thread
\* main.py:494-498, run_code when a process is running; the signal is
\* emitted in the thread its receiver lives in, so the slot runs at once
RunCode_Rejected ==
    /\ current_process # None
    /\ events < MaxEvents
    /\ events' = events + 1
    /\ LET a == AppendConsoleText(buf, caret, WarnText)
       IN /\ buf' = a.buf
          /\ caret' = a.caret
    /\ UNCHANGED <<current_process, input_queue, nextRun, filesWritten, overlap>>
    /\ UNCHANGED <<waiting_for_input, readOnly, input_start_pos, subs>>
    /\ UNCHANGED <<workerVars, readerVars, pumpVars, closeVars, uiVars>>

    /\ UNCHANGED <<twVars, pkgVars>>
\* main.py:500-505 and 575, run_code past the guard: build_run_command
\* writes the file, the console is cleared, the queue replaced and the
\* worker thread started; without an editor tab it returns at line 502
RunCode_Accepted ==
    /\ current_process = None
    /\ nextRun <= MaxRuns
    /\ events < MaxEvents
    /\ \E editor \in BOOLEAN :
         IF ~editor THEN UNCHANGED vars
         ELSE /\ filesWritten' = filesWritten + 1
              /\ buf' = <<>>
              /\ caret' = 0
              /\ input_queue' = <<>>
              /\ wpc' = [wpc EXCEPT ![nextRun] = "spawn"]
              /\ nextRun' = nextRun + 1
              /\ overlap' = (overlap \/ \E r \in Runs : wpc[r] \notin {"none", "done"})
              /\ events' = events + 1
              /\ current_process' = current_process
              /\ UNCHANGED <<waiting_for_input, readOnly, input_start_pos, subs>>
              /\ UNCHANGED <<child, script, termCount>>
              /\ UNCHANGED <<readerVars, pumpVars, closeVars, uiVars>>
              /\ UNCHANGED <<twVars, pkgVars>>

\* main.py:339, the Clear button: QPlainTextEdit.clear()
ClearButton ==
    /\ events < MaxEvents
    /\ events' = events + 1
    /\ buf' = <<>>
    /\ caret' = 0
    /\ UNCHANGED <<waiting_for_input, readOnly, input_start_pos, subs>>
    /\ UNCHANGED <<runnerVars, workerVars, readerVars, pumpVars, closeVars, uiVars>>

    /\ UNCHANGED <<twVars, pkgVars>>
\* the child of current_process has not exited: current_process and
\* current_process.poll() is None (main.py:579, 585, 588)
ProcessAlive_NoPoll == current_process # None
ProcessAlive == current_process # None /\ child[current_process] = "alive"

\* the slot of a queued signal runs in the GUI thread:
\* append_text -> append_console_text (main.py:771-779),
\* request_input -> enable_console_input (main.py:577-580), which calls
\* InteractiveConsole.enable_input (components.py:439-446)
UI_Dispatch ==
    /\ uiq # <<>>
    /\ uiq' = Tail(uiq)
    /\ LET ev == Head(uiq)
       IN IF ev.sig = "append_text"
          THEN LET a == AppendConsoleText(buf, caret, ev.text)
               IN /\ buf' = a.buf
                  /\ caret' = a.caret
                  /\ UNCHANGED <<waiting_for_input, readOnly, input_start_pos>>
          ELSE IF ProcessAlive
               THEN /\ waiting_for_input' = TRUE
                    /\ readOnly' = FALSE
                    /\ caret' = Len(buf)
                    /\ input_start_pos' = Len(buf)
                    /\ buf' = buf
               ELSE UNCHANGED consoleVars
    /\ UNCHANGED <<delayed, runnerVars, workerVars, readerVars, pumpVars,
                   closeVars, userVars>>

    /\ UNCHANGED <<twVars, pkgVars>>
\* -------------------------------------------------------- key events
InsertAt(b, c, ch) == SubSeq(b, 1, c) \o <<ch>> \o SubSeq(b, c + 1, Len(b))
DeleteBefore(b, c) == SubSeq(b, 1, c - 1) \o SubSeq(b, c + 1, Len(b))

\* components.py:437, super().keyPressEvent(event): QPlainTextEdit's own
\* handling; a read-only QPlainTextEdit neither edits nor moves its cursor
\* on a key
SuperKeyPressEvent(k) ==
    /\ IF readOnly THEN UNCHANGED <<buf, caret>>
       ELSE CASE k = "Char" -> /\ buf' = InsertAt(buf, caret, KeyChar)
                               /\ caret' = caret + 1
              [] k = "Return" -> /\ buf' = InsertAt(buf, caret, NL)
                                 /\ caret' = caret + 1
              [] k = "Backspace" -> IF caret > 0
                                    THEN /\ buf' = DeleteBefore(buf, caret)
                                         /\ caret' = caret - 1
                                    ELSE UNCHANGED <<buf, caret>>
              [] k = "Left" -> /\ caret' = IF caret > 0 THEN caret - 1 ELSE 0
                               /\ buf' = buf
              [] k = "Home" -> /\ caret' = LineStart(buf, caret)
                               /\ buf' = buf
              [] k = "Up" -> /\ caret' = MoveUp(buf, caret)
                             /\ buf' = buf
    /\ UNCHANGED <<waiting_for_input, readOnly, input_start_pos>>
    /\ UNCHANGED <<input_queue, delayed, subs>>

\* the text the Return branch selects: components.py:419-421
UserInput ==
    LET pos == SetPosition(buf, caret, input_start_pos)
    IN SelectedText(SubSeq(buf, pos + 1, Len(buf)))

\* components.py:418-428, Return or Enter while waiting_for_input, and the
\* slot of input_submitted, on_console_input (main.py:582-591), which runs
\* inside the emit
SubmitInput ==
    /\ buf' = AppendPlainTextEmpty(buf)
    /\ caret' = Len(buf')
    /\ waiting_for_input' = FALSE
    /\ readOnly' = TRUE
    /\ input_start_pos' = input_start_pos
    /\ LET id == Len(subs) + 1
       IN /\ subs' = Append(subs, [text |-> UserInput,
                                   cp |-> IF ProcessAlive THEN current_process
                                          ELSE None,
                                   live |-> {r \in Runs : child[r] = "alive"}])
          /\ input_queue' = Append(input_queue, [id |-> id, text |-> UserInput])
    /\ delayed' = IF ProcessAlive THEN delayed + 1 ELSE delayed

\* components.py:433-434, the Home branch: cursor.setPosition(
\* self.input_start_pos) and setTextCursor(cursor)
HomeCaret == SetPosition(buf, caret, input_start_pos)

\* components.py:415-437, InteractiveConsole.keyPressEvent
KeyPressEvent(k) ==
    /\ events < MaxEvents
    /\ IF waiting_for_input /\ k = "Return" THEN SubmitInput
       ELSE IF waiting_for_input /\ k \in {"Backspace", "Left"}
               /\ caret <= input_start_pos
       THEN UNCHANGED <<consoleVars, input_queue, delayed, subs>>
       ELSE IF waiting_for_input /\ k = "Home"
       THEN /\ caret' = HomeCaret
            /\ UNCHANGED <<buf, waiting_for_input, readOnly, input_start_pos>>
            /\ UNCHANGED <<input_queue, delayed, subs>>
       ELSE SuperKeyPressEvent(k)
    /\ events' = IF consoleVars' = consoleVars THEN events ELSE events + 1
    /\ UNCHANGED <<current_process, nextRun, filesWritten, overlap, uiq>>
    /\ UNCHANGED <<workerVars, readerVars, pumpVars, closeVars>>

    /\ UNCHANGED <<twVars, pkgVars>>
\* main.py:586-589, delayed_input after its sleep
DelayedInput ==
    /\ delayed > 0
    /\ delayed' = delayed - 1
    /\ uiq' = IF ProcessAlive
              THEN Append(uiq, [sig |-> "request_input", text |-> <<>>])
              ELSE uiq
    /\ UNCHANGED <<runnerVars, workerVars, readerVars, pumpVars, closeVars,
                   consoleVars, userVars>>

    /\ UNCHANGED <<twVars, pkgVars>>
\* ---------------------------------------------------------- the worker
OutTexts == TextsUpTo({OutChar, NL}, MaxEvents)

\* main.py:560-565: after the except branch the finally block runs
AfterExcept_NoFinally == "done"
AfterExcept == "finally"

\* main.py:560-563, the except branch of worker: one append_text signal
\* with the error text, nothing else
ExceptEmits_Twice(q) ==
    Append(Append(q, [sig |-> "append_text", text |-> ErrText]),
           [sig |-> "append_text", text |-> ErrText])
ExceptEmits(q) == Append(q, [sig |-> "append_text", text |-> ErrText])

\* main.py:520-530, subprocess.Popen: the child exists, with what it is
\* going to write to its two pipes; or Popen raises and the except branch
\* (main.py:560-563) emits the error line
W_Popen(r) ==
    /\ wpc[r] = "spawn"
    /\ \/ \E o \in OutTexts, e \in OutTexts :
            /\ Len(o) + Len(e) <= MaxEvents - events
            /\ events' = events + Len(o) + Len(e)
            /\ child' = [child EXCEPT ![r] = "alive"]
            /\ script' = [script EXCEPT ![r] = [stdout |-> o, stderr |-> e]]
            /\ rem' = [rem EXCEPT ![r] = [stdout |-> o, stderr |-> e]]
            /\ wpc' = [wpc EXCEPT ![r] = "assign"]
            /\ uiq' = uiq
       \/ /\ wpc' = [wpc EXCEPT ![r] = AfterExcept]
          /\ uiq' = ExceptEmits(uiq)
          /\ UNCHANGED <<child, script, rem, events>>
    /\ UNCHANGED <<termCount, emitted, rdr, delayed, subs>>
    /\ UNCHANGED <<runnerVars, pumpVars, closeVars, consoleVars>>

    /\ UNCHANGED <<twVars, pkgVars>>
\* main.py:532-553: current_process is set, request_input emitted and the
\* two readers and the stdin pump are started
W_Assign(r) ==
    /\ wpc[r] = "assign"
    /\ current_process' = r
    /\ uiq' = Append(uiq, [sig |-> "request_input", text |-> <<>>])
    /\ rdr' = [rdr EXCEPT ![r] = [s \in Streams |-> "run"]]
    /\ ppc' = [ppc EXCEPT ![r] = "get"]
    /\ wpc' = [wpc EXCEPT ![r] = "wait"]
    /\ UNCHANGED <<input_queue, nextRun, filesWritten, overlap, delayed>>
    /\ UNCHANGED <<child, script, termCount, rem, emitted, held, stdinLog>>
    /\ UNCHANGED <<closeVars, consoleVars, userVars>>

    /\ UNCHANGED <<twVars, pkgVars>>
\* main.py:557-558, out_thread.join() and err_thread.join() have returned
ReadersJoined_NoJoin(r) == TRUE
ReadersJoined(r) == \A s \in Streams : rdr[r][s] = "done"

\* main.py:555-558, proc.wait() and the two joins
W_Wait(r) ==
    /\ wpc[r] = "wait"
    /\ child[r] = "exited"
    /\ ReadersJoined(r)
    /\ wpc' = [wpc EXCEPT ![r] = "finally"]
    /\ UNCHANGED <<child, script, termCount>>
    /\ UNCHANGED <<runnerVars, readerVars, pumpVars, closeVars, uiVars,
                   consoleVars, userVars>>

    /\ UNCHANGED <<twVars, pkgVars>>
\* main.py:565-573, the finally block: stdin of a spawned child is closed,
\* current_process reset
W_Finally(r) ==
    /\ wpc[r] = "finally"
    /\ IF child[r] # "none"
       THEN /\ closeLog' = [closeLog EXCEPT ![r] = Append(@, "stdin")]
            /\ closedAlive' = [closedAlive EXCEPT
                                 ![r] = @ \/ child[r] = "alive"]
       ELSE UNCHANGED closeVars
    /\ current_process' = None
    /\ termCount' = [termCount EXCEPT ![r] = @ + 1]
    /\ wpc' = [wpc EXCEPT ![r] = "done"]
    /\ UNCHANGED <<input_queue, nextRun, filesWritten, overlap>>
    /\ UNCHANGED <<child, script>>
    /\ UNCHANGED <<readerVars, pumpVars, uiVars, consoleVars, userVars>>

    /\ UNCHANGED <<twVars, pkgVars>>
\* the child process exits; its ends of the pipes close
ChildExit(r) ==
    /\ child[r] = "alive"
    /\ child' = [child EXCEPT ![r] = "exited"]
    /\ UNCHANGED <<wpc, script, termCount>>
    /\ UNCHANGED <<runnerVars, readerVars, pumpVars, closeVars, uiVars,
                   consoleVars, userVars>>

    /\ UNCHANGED <<twVars, pkgVars>>
\* ---------------------------------------------------------- read_stream
\* for line in stream  has a next line: a terminated one, or at end of file
\* (the child has exited) the unterminated rest
LineReady(r, s) ==
    /\ rem[r][s] # <<>>
    /\ (IndexOfNL(rem[r][s]) > 0 \/ child[r] = "exited")

\* main.py:509-510, one line read and emitted
R_Line(r, s) ==
    /\ rdr[r][s] = "run"
    /\ LineReady(r, s)
    /\ LET line == NextLine(rem[r][s])
       IN /\ uiq' = Append(uiq, [sig |-> "append_text", text |-> line])
          /\ emitted' = [emitted EXCEPT ![r][s] = @ \o line]
    /\ rem' = [rem EXCEPT ![r][s] = AfterLine(@)]
    /\ UNCHANGED <<rdr, delayed>>
    /\ UNCHANGED <<runnerVars, workerVars, pumpVars, closeVars, consoleVars,
                   userVars>>

    /\ UNCHANGED <<twVars, pkgVars>>
\* main.py:511-515, end of file: the loop ends and the stream is closed
R_Eof(r, s) ==
    /\ rdr[r][s] = "run"
    /\ rem[r][s] = <<>>
    /\ child[r] = "exited"
    /\ rdr' = [rdr EXCEPT ![r][s] = "done"]
    /\ closeLog' = [closeLog EXCEPT ![r] = Append(@, s)]
    /\ closedAlive' = closedAlive
    /\ UNCHANGED <<rem, emitted>>
    /\ UNCHANGED <<runnerVars, workerVars, pumpVars, uiVars, consoleVars,
                   userVars>>

    /\ UNCHANGED <<twVars, pkgVars>>
\* ----------------------------------------------------------- _pump_stdin
StdinClosed(r) == \E i \in 1..Len(closeLog[r]) : closeLog[r][i] = "stdin"

\* main.py:481, while proc.poll() is None: the loop ends once the child
\* has exited
P_Poll(r) ==
    /\ ppc[r] = "get"
    /\ child[r] # "alive"
    /\ ppc' = [ppc EXCEPT ![r] = "done"]
    /\ UNCHANGED <<held, stdinLog>>
    /\ UNCHANGED <<runnerVars, workerVars, readerVars, closeVars, uiVars,
                   consoleVars, userVars>>

    /\ UNCHANGED <<twVars, pkgVars>>
\* main.py:483, self.input_queue.get returns a line; the child was alive
\* at the poll before this get, which waits up to 0.1 s (a get that times
\* out changes nothing and leads back to the poll)
P_Get(r) ==
    /\ ppc[r] = "get"
    /\ input_queue # <<>>
    /\ held' = [held EXCEPT ![r] = Head(input_queue)]
    /\ input_queue' = Tail(input_queue)
    /\ ppc' = [ppc EXCEPT ![r] = "write"]
    /\ UNCHANGED <<current_process, nextRun, filesWritten, overlap, stdinLog>>
    /\ UNCHANGED <<workerVars, readerVars, closeVars, uiVars, consoleVars,
                   userVars>>

    /\ UNCHANGED <<twVars, pkgVars>>
\* main.py:486-491, the line and a newline are written and flushed; the
\* write raises when stdin is closed or the child is gone, and the loop ends
P_Write(r) ==
    /\ ppc[r] = "write"
    /\ IF child[r] = "alive" /\ ~StdinClosed(r)
       THEN /\ stdinLog' = [stdinLog EXCEPT
                              ![r] = Append(@, [id |-> held[r].id,
                                                text |-> Append(held[r].text, NL)])]
            /\ ppc' = [ppc EXCEPT ![r] = "get"]
       ELSE /\ stdinLog' = stdinLog
            /\ ppc' = [ppc EXCEPT ![r] = "done"]
    /\ held' = [held EXCEPT ![r] = NoLine]
    /\ UNCHANGED <<runnerVars, workerVars, readerVars, closeVars, uiVars,
                   consoleVars, userVars>>

    /\ UNCHANGED <<twVars, pkgVars>>
\* ------------------------------------------- test.py, old.py: run_code
\* stands for the text of the line "[Execution finished in ...s]"
FinChar == "f"
\* test.py:515, the chunk of the finished line
FinText == <<NL, FinChar>>
\* test.py:517, the chunk of execute's except branch
TwErrText == <<NL, ErrChar>>
TwTexts == TextsUpTo({OutChar, NL}, MaxTwChars)

\* str.rstrip() on a line of the alphabet {OutChar, NL}: the trailing
\* line terminators go
RECURSIVE Rstrip(_)
Rstrip(t) ==
    IF t # <<>> /\ t[Len(t)] = NL THEN Rstrip(SubSeq(t, 1, Len(t) - 1)) ELSE t

\* test.py:660-667, append_console_text: the text goes to the end and the
\* widget's cursor is set behind it
TwAppendConsoleText(b, text) == [buf |-> b \o text, caret |-> Len(b) + Len(text)]

\* self.current_process and self.current_process.poll() is None
\* (test.py:529)
TwProcessAlive == tw_current_process # None /\ tw_child = "alive"

\* test.py:423-441 and 525, run_code with an editor whose code compiles:
\* the console is cleared and the thread of execute started (there is no
\* check for a running process)
TW_RunCode ==
    /\ tw_runs < MaxTwRuns
    /\ tw_pc = "none"
    /\ tw_runs' = tw_runs + 1
    /\ tw_pc' = "spawn"
    /\ buf' = <<>>
    /\ caret' = 0
    /\ UNCHANGED <<waiting_for_input, readOnly, input_start_pos, uiq>>
    /\ UNCHANGED <<tw_current_process, tw_child, tw_script, tw_todo, tw_pipe,
                   out_pc, buffer, last_was_newline, err_pc, tw_emitted,
                   tw_finished>>
    /\ UNCHANGED <<backVars, pkgVars, inVars>>

\* test.py:444-500, Popen and the start of the two reader threads; or Popen
\* raises and the except branch (test.py:516-517) emits the error
TW_Popen ==
    /\ tw_pc = "spawn"
    /\ \/ \E o \in TwTexts, e \in TwTexts :
            /\ Len(o) + Len(e) <= MaxTwChars
            /\ tw_current_process' = 1
            /\ tw_child' = "alive"
            /\ tw_script' = [stdout |-> o, stderr |-> e]
            /\ tw_todo' = [stdout |-> o, stderr |-> e]
            /\ out_pc' = "read"
            /\ err_pc' = "read"
            /\ tw_pc' = "monitor"
            /\ uiq' = uiq
       \/ /\ tw_pc' = "finally"
          /\ uiq' = Append(uiq, [sig |-> "append_text", text |-> TwErrText])
          /\ UNCHANGED <<tw_current_process, tw_child, tw_script, tw_todo,
                         out_pc, err_pc>>
    /\ UNCHANGED <<tw_runs, tw_pipe, buffer, last_was_newline, tw_emitted,
                   tw_finished>>
    /\ UNCHANGED <<backVars, consoleVars, pkgVars, inVars>>

\* the child writes its next character to one of its pipes
TW_ChildWrite(s) ==
    /\ tw_child = "alive"
    /\ tw_todo[s] # <<>>
    /\ tw_pipe' = [tw_pipe EXCEPT ![s] = Append(@, Head(tw_todo[s]))]
    /\ tw_todo' = [tw_todo EXCEPT ![s] = Tail(@)]
    /\ UNCHANGED <<tw_runs, tw_pc, tw_current_process, tw_child, tw_script,
                   out_pc, buffer, last_was_newline, err_pc, tw_emitted,
                   tw_finished>>
    /\ UNCHANGED <<ideVars, pkgVars, inVars>>

\* the child has written all it writes and exits
TW_ChildExit ==
    /\ tw_child = "alive"
    /\ \A s \in Streams : tw_todo[s] = <<>>
    /\ tw_child' = "exited"
    /\ UNCHANGED <<tw_runs, tw_pc, tw_current_process, tw_script, tw_todo,
                   tw_pipe, out_pc, buffer, last_was_newline, err_pc,
                   tw_emitted, tw_finished>>
    /\ UNCHANGED <<ideVars, pkgVars, inVars>>

\* test.py:462-480, read_stdout: one character is read and emitted at
\* once, and the buffer updated; self.current_process is looked up at each
\* read, and the thread ends with an AttributeError when it is None
Out_Read ==
    /\ out_pc = "read"
    /\ IF tw_current_process = None
       THEN /\ out_pc' = "crashed"
            /\ UNCHANGED <<tw_pipe, buffer, last_was_newline, tw_emitted, uiq>>
       ELSE /\ tw_pipe["stdout"] # <<>>
            /\ LET char == Head(tw_pipe["stdout"])
               IN /\ uiq' = Append(uiq, [sig |-> "append_text",
                                          text |-> <<char>>])
                  /\ tw_emitted' = [tw_emitted EXCEPT !["stdout"] = Append(@, char)]
                  /\ buffer' = IF char = NL THEN <<>> ELSE Append(buffer, char)
                  /\ last_was_newline' = (char = NL)
            /\ tw_pipe' = [tw_pipe EXCEPT !["stdout"] = Tail(@)]
            /\ out_pc' = "poll"
    /\ UNCHANGED <<tw_runs, tw_pc, tw_current_process, tw_child, tw_script,
                   tw_todo, err_pc, tw_finished>>
    /\ UNCHANGED <<backVars, consoleVars, pkgVars, inVars>>

\* test.py:463-467, end of stream: what the buffer holds is emitted
Out_Eof ==
    /\ out_pc = "read"
    /\ tw_current_process # None
    /\ tw_pipe["stdout"] = <<>>
    /\ tw_child = "exited"
    /\ IF buffer # <<>>
       THEN /\ uiq' = Append(uiq, [sig |-> "append_text", text |-> buffer])
            /\ tw_emitted' = [tw_emitted EXCEPT !["stdout"] = @ \o buffer]
       ELSE UNCHANGED <<uiq, tw_emitted>>
    /\ out_pc' = "done"
    /\ UNCHANGED <<tw_runs, tw_pc, tw_current_process, tw_child, tw_script,
                   tw_todo, tw_pipe, buffer, last_was_newline, err_pc,
                   tw_finished>>
    /\ UNCHANGED <<backVars, consoleVars, pkgVars, inVars>>

\* test.py:471 and 483, after the sleep of output_buffer_delay: the check
\* not last_was_newline and self.current_process.poll() is None
Out_Poll ==
    /\ out_pc = "poll"
    /\ out_pc' = IF last_was_newline THEN "read"
                 ELSE IF tw_current_process = None THEN "crashed"
                 ELSE IF tw_child = "alive" THEN "peek"
                 ELSE "read"
    /\ UNCHANGED <<tw_runs, tw_pc, tw_current_process, tw_child, tw_script,
                   tw_todo, tw_pipe, buffer, last_was_newline, err_pc,
                   tw_emitted, tw_finished>>
    /\ UNCHANGED <<ideVars, pkgVars, inVars>>

\* test.py:485-490, after the sleep of 3 * output_buffer_delay: the buffer
\* is looked at, nothing else, then cleared and request_input emitted
Out_Peek ==
    /\ out_pc = "peek"
    /\ IF buffer # <<>> /\ buffer[Len(buffer)] # NL
       THEN /\ buffer' = <<>>
            /\ uiq' = Append(uiq, [sig |-> "request_input", text |-> <<>>])
       ELSE UNCHANGED <<buffer, uiq>>
    /\ out_pc' = "read"
    /\ UNCHANGED <<tw_runs, tw_pc, tw_current_process, tw_child, tw_script,
                   tw_todo, tw_pipe, last_was_newline, err_pc, tw_emitted,
                   tw_finished>>
    /\ UNCHANGED <<backVars, consoleVars, pkgVars, inVars>>

\* readline has a line: a terminated one, or at end of file the rest
TwLineReady ==
    /\ tw_pipe["stderr"] # <<>>
    /\ (IndexOfNL(tw_pipe["stderr"]) > 0
          \/ (tw_child = "exited" /\ tw_todo["stderr"] = <<>>))

\* test.py:493-495, read_stderr: one line, emitted without its end
Err_Line ==
    /\ err_pc = "read"
    /\ TwLineReady
    /\ LET line == NextLine(tw_pipe["stderr"])
       IN /\ uiq' = Append(uiq, [sig |-> "append_text", text |-> Rstrip(line)])
          /\ tw_emitted' = [tw_emitted EXCEPT !["stderr"] = @ \o Rstrip(line)]
    /\ tw_pipe' = [tw_pipe EXCEPT !["stderr"] = AfterLine(@)]
    /\ UNCHANGED <<tw_runs, tw_pc, tw_current_process, tw_child, tw_script,
                   tw_todo, out_pc, buffer, last_was_newline, err_pc,
                   tw_finished>>
    /\ UNCHANGED <<backVars, consoleVars, pkgVars, inVars>>

\* test.py:493, readline returns '' at end of file
Err_Eof ==
    /\ err_pc = "read"
    /\ tw_pipe["stderr"] = <<>>
    /\ tw_child = "exited"
    /\ err_pc' = "done"
    /\ UNCHANGED <<tw_runs, tw_pc, tw_current_process, tw_child, tw_script,
                   tw_todo, tw_pipe, out_pc, buffer, last_was_newline,
                   tw_emitted, tw_finished>>
    /\ UNCHANGED <<ideVars, pkgVars, inVars>>

\* test.py:503-509, the input loop ends when the child has exited (no line
\* is submitted here, every get times out)
TW_Monitor ==
    /\ tw_pc = "monitor"
    /\ tw_child = "exited"
    /\ tw_pc' = "join_out"
    /\ UNCHANGED <<tw_runs, tw_current_process, tw_child, tw_script, tw_todo,
                   tw_pipe, out_pc, buffer, last_was_newline, err_pc,
                   tw_emitted, tw_finished>>
    /\ UNCHANGED <<ideVars, pkgVars, inVars>>

\* test.py:511, out_thread.join(timeout=1) returns: read_stdout has ended,
\* or the second is over while read_stdout, which sleeps after every
\* character it reads, still has characters to read
TW_JoinOut ==
    /\ tw_pc = "join_out"
    /\ out_pc \in {"done", "crashed"} \/ tw_pipe["stdout"] # <<>>
    /\ tw_pc' = "join_err"
    /\ UNCHANGED <<tw_runs, tw_current_process, tw_child, tw_script, tw_todo,
                   tw_pipe, out_pc, buffer, last_was_newline, err_pc,
                   tw_emitted, tw_finished>>
    /\ UNCHANGED <<ideVars, pkgVars, inVars>>

\* test.py:512, err_thread.join(timeout=1) returns: read_stderr has ended,
\* or the second is over while it still has lines to read
TW_JoinErr ==
    /\ tw_pc = "join_err"
    /\ err_pc = "done" \/ tw_pipe["stderr"] # <<>>
    /\ tw_pc' = "finished"
    /\ UNCHANGED <<tw_runs, tw_current_process, tw_child, tw_script, tw_todo,
                   tw_pipe, out_pc, buffer, last_was_newline, err_pc,
                   tw_emitted, tw_finished>>
    /\ UNCHANGED <<ideVars, pkgVars, inVars>>

\* test.py:514-515, the finished line is emitted
TW_Finished ==
    /\ tw_pc = "finished"
    /\ uiq' = Append(uiq, [sig |-> "append_text", text |-> FinText])
    /\ tw_finished' = TRUE
    /\ tw_pc' = "finally"
    /\ UNCHANGED <<tw_runs, tw_current_process, tw_child, tw_script, tw_todo,
                   tw_pipe, out_pc, buffer, last_was_newline, err_pc,
                   tw_emitted>>
    /\ UNCHANGED <<backVars, consoleVars, pkgVars, inVars>>

\* test.py:518-523, the finally block
TW_Finally ==
    /\ tw_pc = "finally"
    /\ tw_current_process' = None
    /\ tw_pc' = "done"
    /\ UNCHANGED <<tw_runs, tw_child, tw_script, tw_todo, tw_pipe, out_pc,
                   buffer, last_was_newline, err_pc, tw_emitted, tw_finished>>
    /\ UNCHANGED <<ideVars, pkgVars, inVars>>

\* the slot of a queued signal runs in the GUI thread of test.py:
\* append_text -> append_console_text (test.py:660-667), request_input ->
\* enable_console_input (test.py:527-530) and enable_input
\* (components.py:439-446)
TW_UI_Dispatch ==
    /\ uiq # <<>>
    /\ uiq' = Tail(uiq)
    /\ LET ev == Head(uiq)
       IN IF ev.sig = "append_text"
          THEN LET a == TwAppendConsoleText(buf, ev.text)
               IN /\ buf' = a.buf
                  /\ caret' = a.caret
                  /\ UNCHANGED <<waiting_for_input, readOnly, input_start_pos>>
          ELSE IF TwProcessAlive
               THEN /\ waiting_for_input' = TRUE
                    /\ readOnly' = FALSE
                    /\ caret' = Len(buf)
                    /\ input_start_pos' = Len(buf)
                    /\ buf' = buf
               ELSE UNCHANGED consoleVars
    /\ UNCHANGED <<backVars, twVars, pkgVars>>

\* ------------------------- test.py, old.py: the runs side by side
\* Every run_code call starts a thread of execute, which spawns a child,
\* starts read_stdout and then feeds the child's stdin from
\* self.input_queue. All of them reach the child through
\* self.current_process, looked up at each use. A child of run r has the
\* number r. The children write at most a prompt, one character without a
\* line end; read_stderr, which reaches its stream in the same way
\* (test.py:493), has nothing to read and is left out.
Prompts == {<<>>, <<OutChar>>}

\* self.current_process and self.current_process.poll() is None
\* (test.py:529, 536, 539)
ExProcessAlive ==
    tw_current_process # None /\ ex_child[tw_current_process] = "alive"

\* test.py:516-517, the except branch of execute: the error is shown
ExExcept(q) == Append(q, [sig |-> "append_text", text |-> TwErrText])

\* test.py:423-441 and 525, run_code with an editor whose code compiles:
\* the console is cleared and the thread of execute started, whatever
\* self.current_process is; self.input_queue is left as it is
Ex_RunCode ==
    /\ tw_runs < MaxInRuns
    /\ tw_runs' = tw_runs + 1
    /\ ex_pc' = [ex_pc EXCEPT ![tw_runs + 1] = "spawn"]
    /\ buf' = <<>>
    /\ caret' = 0
    /\ UNCHANGED <<waiting_for_input, readOnly, input_start_pos, uiq,
                   tw_current_process>>
    /\ UNCHANGED <<tw_input_queue, tw_lines, ex_child, ex_out, ex_held,
                   ex_stdin, rd_pc, rd_buffer, rd_from>>
    /\ UNCHANGED <<twRunVars, backVars, pkgVars>>

\* test.py:444-500, Popen, assigned to self.current_process, and the start
\* of read_stdout; or Popen raises (test.py:516-517)
Ex_Popen(r) ==
    /\ ex_pc[r] = "spawn"
    /\ \/ \E o \in Prompts :
            /\ tw_current_process' = r
            /\ ex_child' = [ex_child EXCEPT ![r] = "alive"]
            /\ ex_out' = [ex_out EXCEPT ![r] = o]
            /\ rd_pc' = [rd_pc EXCEPT ![r] = "read"]
            /\ ex_pc' = [ex_pc EXCEPT ![r] = "loop"]
            /\ uiq' = uiq
       \/ /\ ex_pc' = [ex_pc EXCEPT ![r] = "finally"]
          /\ uiq' = ExExcept(uiq)
          /\ UNCHANGED <<tw_current_process, ex_child, ex_out, rd_pc>>
    /\ UNCHANGED <<tw_runs, tw_input_queue, tw_lines, ex_held, ex_stdin,
                   rd_buffer, rd_from>>
    /\ UNCHANGED <<twRunVars, backVars, consoleVars, pkgVars>>

\* a child exits
Ex_ChildExit(c) ==
    /\ ex_child[c] = "alive"
    /\ ex_child' = [ex_child EXCEPT ![c] = "exited"]
    /\ UNCHANGED <<tw_runs, tw_current_process, tw_input_queue, tw_lines,
                   ex_pc, ex_out, ex_held, ex_stdin, rd_pc, rd_buffer, rd_from>>
    /\ UNCHANGED <<twRunVars, ideVars, pkgVars>>

\* test.py:503, while self.current_process.poll() is None: the loop ends
\* when the child self.current_process holds has exited; with
\* self.current_process None the lookup of poll raises AttributeError,
\* which the except branch of execute reports (test.py:516-517)
Ex_Poll(r) ==
    /\ ex_pc[r] = "loop"
    /\ IF tw_current_process = None
       THEN /\ uiq' = ExExcept(uiq)
            /\ ex_pc' = [ex_pc EXCEPT ![r] = "finally"]
       ELSE /\ ex_child[tw_current_process] = "exited"
            /\ uiq' = uiq
            /\ ex_pc' = [ex_pc EXCEPT ![r] = "join"]
    /\ UNCHANGED <<tw_runs, tw_current_process, tw_input_queue, tw_lines,
                   ex_child, ex_out, ex_held, ex_stdin, rd_pc, rd_buffer,
                   rd_from>>
    /\ UNCHANGED <<twRunVars, backVars, consoleVars, pkgVars>>

\* test.py:503-505, the child was alive at the poll and
\* self.input_queue.get returns a line within its 0.1 s (a get that times
\* out changes nothing)
Ex_Get(r) ==
    /\ ex_pc[r] = "loop"
    /\ ExProcessAlive
    /\ tw_input_queue # <<>>
    /\ ex_held' = [ex_held EXCEPT ![r] = Head(tw_input_queue)]
    /\ tw_input_queue' = Tail(tw_input_queue)
    /\ ex_pc' = [ex_pc EXCEPT ![r] = "write"]
    /\ UNCHANGED <<tw_runs, tw_current_process, tw_lines, ex_child, ex_out,
                   ex_stdin, rd_pc, rd_buffer, rd_from>>
    /\ UNCHANGED <<twRunVars, ideVars, pkgVars>>

\* test.py:506-509, self.current_process.stdin.write and flush: the line
\* goes to the child self.current_process holds now; when that child has
\* exited the write raises BrokenPipeError, with self.current_process None
\* the lookup raises AttributeError; the try of the loop catches
\* queue.Empty only, so either leaves the loop for the except branch of
\* execute (test.py:516-517), past the joins and the finished line
Ex_Write(r) ==
    /\ ex_pc[r] = "write"
    /\ IF ExProcessAlive
       THEN /\ ex_stdin' = [ex_stdin EXCEPT ![tw_current_process] =
                              Append(@, [line |-> ex_held[r], by |-> r])]
            /\ ex_pc' = [ex_pc EXCEPT ![r] = "loop"]
            /\ uiq' = uiq
       ELSE /\ ex_stdin' = ex_stdin
            /\ ex_pc' = [ex_pc EXCEPT ![r] = "finally"]
            /\ uiq' = ExExcept(uiq)
    /\ ex_held' = [ex_held EXCEPT ![r] = NoInput]
    /\ UNCHANGED <<tw_runs, tw_current_process, tw_input_queue, tw_lines,
                   ex_child, ex_out, rd_pc, rd_buffer, rd_from>>
    /\ UNCHANGED <<twRunVars, backVars, consoleVars, pkgVars>>

\* test.py:511-515, the two joins, which return at the latest after one
\* second each, and the finished line
Ex_Join(r) ==
    /\ ex_pc[r] = "join"
    /\ uiq' = Append(uiq, [sig |-> "append_text", text |-> FinText])
    /\ ex_pc' = [ex_pc EXCEPT ![r] = "finally"]
    /\ UNCHANGED <<tw_runs, tw_current_process, tw_input_queue, tw_lines,
                   ex_child, ex_out, ex_held, ex_stdin, rd_pc, rd_buffer,
                   rd_from>>
    /\ UNCHANGED <<twRunVars, backVars, consoleVars, pkgVars>>

\* test.py:518-523, the finally block: self.current_process = None
Ex_Finally(r) ==
    /\ ex_pc[r] = "finally"
    /\ tw_current_process' = None
    /\ ex_pc' = [ex_pc EXCEPT ![r] = "done"]
    /\ UNCHANGED <<tw_runs, tw_input_queue, tw_lines, ex_child, ex_out,
                   ex_held, ex_stdin, rd_pc, rd_buffer, rd_from>>
    /\ UNCHANGED <<twRunVars, ideVars, pkgVars>>

\* test.py:462-480, read_stdout of run r: self.current_process.stdout
\* .read(1) returns a character of the child self.current_process holds
\* now, which is emitted and put into the buffer; with
\* self.current_process None the thread ends with AttributeError
Rd_Read(r) ==
    /\ rd_pc[r] = "read"
    /\ IF tw_current_process = None
       THEN /\ rd_pc' = [rd_pc EXCEPT ![r] = "crashed"]
            /\ UNCHANGED <<ex_out, rd_buffer, rd_from, uiq>>
       ELSE /\ ex_out[tw_current_process] # <<>>
            /\ LET char == Head(ex_out[tw_current_process])
               IN /\ uiq' = Append(uiq, [sig |-> "append_text",
                                          text |-> <<char>>])
                  /\ rd_buffer' = [rd_buffer EXCEPT ![r] = Append(@, char)]
            /\ ex_out' = [ex_out EXCEPT ![tw_current_process] = Tail(@)]
            /\ rd_from' = [rd_from EXCEPT ![r] = @ \cup {tw_current_process}]
            /\ rd_pc' = [rd_pc EXCEPT ![r] = "poll"]
    /\ UNCHANGED <<tw_runs, tw_current_process, tw_input_queue, tw_lines,
                   ex_pc, ex_child, ex_held, ex_stdin>>
    /\ UNCHANGED <<twRunVars, backVars, consoleVars, pkgVars>>

\* test.py:463-467, read(1) returns '' at the end of the stream of the
\* child self.current_process holds now: the buffer is emitted
Rd_Eof(r) ==
    /\ rd_pc[r] = "read"
    /\ tw_current_process # None
    /\ ex_out[tw_current_process] = <<>>
    /\ ex_child[tw_current_process] = "exited"
    /\ uiq' = IF rd_buffer[r] # <<>>
              THEN Append(uiq, [sig |-> "append_text", text |-> rd_buffer[r]])
              ELSE uiq
    /\ rd_pc' = [rd_pc EXCEPT ![r] = "done"]
    /\ UNCHANGED <<tw_runs, tw_current_process, tw_input_queue, tw_lines,
                   ex_pc, ex_child, ex_out, ex_held, ex_stdin, rd_buffer,
                   rd_from>>
    /\ UNCHANGED <<twRunVars, backVars, consoleVars, pkgVars>>

\* test.py:483-490, after a character that is no line end: when the child
\* self.current_process holds has not exited, the thread sleeps, clears the
\* buffer and emits request_input
Rd_Poll(r) ==
    /\ rd_pc[r] = "poll"
    /\ IF tw_current_process = None
       THEN /\ rd_pc' = [rd_pc EXCEPT ![r] = "crashed"]
            /\ UNCHANGED <<rd_buffer, uiq>>
       ELSE /\ rd_pc' = [rd_pc EXCEPT ![r] = "read"]
            /\ IF ex_child[tw_current_process] = "alive" /\ rd_buffer[r] # <<>>
               THEN /\ rd_buffer' = [rd_buffer EXCEPT ![r] = <<>>]
                    /\ uiq' = Append(uiq, [sig |-> "request_input",
                                           text |-> <<>>])
               ELSE UNCHANGED <<rd_buffer, uiq>>
    /\ UNCHANGED <<tw_runs, tw_current_process, tw_input_queue, tw_lines,
                   ex_pc, ex_child, ex_out, ex_held, ex_stdin, rd_from>>
    /\ UNCHANGED <<twRunVars, backVars, consoleVars, pkgVars>>

\* the slot of a queued signal runs in the GUI thread of test.py:
\* append_text -> append_console_text (test.py:660-667), request_input ->
\* enable_console_input (test.py:527-530) and enable_input
\* (components.py:439-446)
Ex_UI_Dispatch ==
    /\ uiq # <<>>
    /\ uiq' = Tail(uiq)
    /\ LET ev == Head(uiq)
       IN IF ev.sig = "append_text"
          THEN LET a == TwAppendConsoleText(buf, ev.text)
               IN /\ buf' = a.buf
                  /\ caret' = a.caret
                  /\ UNCHANGED <<waiting_for_input, readOnly, input_start_pos>>
          ELSE IF ExProcessAlive
               THEN /\ waiting_for_input' = TRUE
                    /\ readOnly' = FALSE
                    /\ caret' = Len(buf)
                    /\ input_start_pos' = Len(buf)
                    /\ buf' = buf
               ELSE UNCHANGED consoleVars
    /\ UNCHANGED <<backVars, twVars, pkgVars>>

\* components.py:418-428, Return while waiting_for_input, and the slot of
\* input_submitted, on_console_input of test.py (test.py:532-542): the
\* line is put into self.input_queue, and a delayed_input thread started
\* when a child is alive. With the line go the number of run_code calls so
\* far and whether a child was alive, for the record.
Ex_Return ==
    /\ waiting_for_input
    /\ tw_lines < MaxLines
    /\ tw_lines' = tw_lines + 1
    /\ buf' = AppendPlainTextEmpty(buf)
    /\ caret' = Len(buf')
    /\ waiting_for_input' = FALSE
    /\ readOnly' = TRUE
    /\ input_start_pos' = input_start_pos
    /\ tw_input_queue' =
          Append(tw_input_queue,
                 [text |-> UserInput, runs |-> tw_runs,
                  alive |-> (\E c \in Execs : ex_child[c] = "alive")])
    /\ delayed' = IF ExProcessAlive THEN delayed + 1 ELSE delayed
    /\ UNCHANGED <<tw_runs, tw_current_process, ex_pc, ex_child, ex_out,
                   ex_held, ex_stdin, rd_pc, rd_buffer, rd_from>>
    /\ UNCHANGED <<twRunVars, runnerVars, workerVars, readerVars, pumpVars,
                   closeVars, userVars, uiq, pkgVars>>

\* test.py:537-540, delayed_input after its sleep
Ex_DelayedInput ==
    /\ delayed > 0
    /\ delayed' = delayed - 1
    /\ uiq' = IF ExProcessAlive
              THEN Append(uiq, [sig |-> "request_input", text |-> <<>>])
              ELSE uiq
    /\ UNCHANGED <<runnerVars, workerVars, readerVars, pumpVars, closeVars,
                   consoleVars, userVars>>
    /\ UNCHANGED <<twVars, pkgVars>>

\* --------------------------------- main.py: PackageInstallerDialog
\* package names that pip list may report or the user may type
N_PyQt6 == <<"P", "y", "Q", "t", "6">>
N_PyQt6_sip_hyphen == <<"P", "y", "Q", "t", "6", "-", "s", "i", "p">>
N_PyQt6_sip == <<"P", "y", "Q", "t", "6", "_", "s", "i", "p">>
N_PyQt6_Qt6 == <<"P", "y", "Q", "t", "6", "-", "Q", "t", "6">>
N_pyqt5 == <<"p", "y", "q", "t", "5">>
N_six == <<"s", "i", "x">>
PkgNames == {N_PyQt6, N_PyQt6_sip_hyphen, N_PyQt6_sip, N_PyQt6_Qt6, N_pyqt5, N_six}

\* what pip list --format=json may yield: the names of its entries (the
\* version of an entry plays no part but in the item's text)
RECURSIVE ListingsUpTo(_)
ListingsUpTo(n) ==
    IF n = 0 THEN {<<>>}
    ELSE LET L == ListingsUpTo(n - 1)
         IN L \cup {Append(l, x) : l \in {u \in L : Len(u) = n - 1}, x \in PkgNames}
Listings == ListingsUpTo(MaxPkgs)

\* what the user may type into the line edit
TypedNames == {N_PyQt6, N_six, <<>>, <<" ">>}

\* str.lower() on one character
Lower_Identity(c) == c
Lower(c) ==
    CASE c = "P" -> "p"
      [] c = "Q" -> "q"
      [] OTHER -> c

\* s.lower().replace("-", "_")
Normalize(name) ==
    [i \in 1..Len(name) |-> IF Lower(name[i]) = "-" THEN "_" ELSE Lower(name[i])]

\* main.py:953, protected_packages
protected_packages ==
    {<<"p", "y", "q", "t", "6">>,
     <<"p", "y", "q", "t", "6", "-", "q", "t", "6">>,
     <<"p", "y", "q", "t", "6", "-", "s", "i", "p">>,
     <<"p", "y", "q", "t", "6", "_", "s", "i", "p">>}

\* main.py:956, {p.replace("-", "_") for p in protected_packages}
ProtectedNormalized ==
    {[i \in 1..Len(q) |-> IF q[i] = "-" THEN "_" ELSE q[i]] : q \in protected_packages}

\* main.py:954-957, filtered_packages
RECURSIVE FilterPackages(_)
FilterPackages(packages) ==
    IF packages = <<>> THEN <<>>
    ELSE IF Normalize(Head(packages)) \notin ProtectedNormalized
         THEN <<Head(packages)>> \o FilterPackages(Tail(packages))
         ELSE FilterPackages(Tail(packages))

\* the code point of a character of the names
Code(c) ==
    CASE c = " " -> 32 [] c = "-" -> 45 [] c = "5" -> 53 [] c = "6" -> 54
      [] c = "P" -> 80 [] c = "Q" -> 81 [] c = "_" -> 95 [] c = "i" -> 105
      [] c = "p" -> 112 [] c = "q" -> 113 [] c = "s" -> 115 [] c = "t" -> 116
      [] c = "x" -> 120 [] c = "y" -> 121

\* a.lower() < b.lower(), as Python compares strings
RECURSIVE LowerLess(_, _)
LowerLess(a, b) ==
    IF b = <<>> THEN FALSE
    ELSE IF a = <<>> THEN TRUE
    ELSE IF Code(Lower(Head(a))) # Code(Lower(Head(b)))
         THEN Code(Lower(Head(a))) < Code(Lower(Head(b)))
         ELSE LowerLess(Tail(a), Tail(b))

\* x put into the sorted sequence l behind every entry that is not greater
RECURSIVE InsertSorted(_, _)
InsertSorted(l, x) ==
    IF l = <<>> THEN <<x>>
    ELSE IF LowerLess(x, Head(l)) THEN <<x>> \o l
         ELSE <<Head(l)>> \o InsertSorted(Tail(l), x)

\* main.py:959, sorted(filtered_packages, key=lambda p: p["name"].lower()),
\* a stable sort
RECURSIVE SortedByLower(_)
SortedByLower(l) ==
    IF l = <<>> THEN <<>>
    ELSE InsertSorted(SortedByLower(SubSeq(l, 1, Len(l) - 1)), l[Len(l)])

\* str.strip() on a text of the names' alphabet and the blank
RECURSIVE Strip(_)
Strip(t) ==
    IF t # <<>> /\ Head(t) = " " THEN Strip(Tail(t))
    ELSE IF t # <<>> /\ t[Len(t)] = " " THEN Strip(SubSeq(t, 1, Len(t) - 1))
    ELSE t

\* main.py:926-927, _set_status with a line of output of pip: the stripped
\* text, or "Ready" when nothing is left of it
OutputStatus(t) == IF Rstrip(t) = <<>> THEN "Ready" ELSE "Output"

\* main.py:946, self.installed_list.clear()
ClearInstalled_Keep(l) == l
ClearInstalled(l) == <<>>

\* main.py:929-931, refresh_installed
RefreshInstalled ==
    /\ loads < MaxLoads
    /\ status_label' = "Loading"
    /\ loads' = loads + 1
    /\ loading' = loading + 1

\* main.py:594-596 and 863-909, open_package_installer: the dialog is
\* constructed, which ends with refresh_installed(), and shown
OpenPackageInstaller ==
    /\ dlg = "closed"
    /\ dlg' = "open"
    /\ RefreshInstalled
    /\ UNCHANGED <<package_input, installed_list, loadq, lastLoaded>>
    /\ UNCHANGED <<ideVars, twVars, pipVars>>

\* main.py:882, the Refresh button
RefreshButton ==
    /\ dlg = "open"
    /\ RefreshInstalled
    /\ UNCHANGED <<dlg, package_input, installed_list, loadq, lastLoaded>>
    /\ UNCHANGED <<ideVars, twVars, pipVars>>

\* main.py:933-943, _load_installed in its thread: the listing parsed, or
\* an exception of check_output, json.loads or emit caught and its text sent
LoadInstalled ==
    /\ loading > 0
    /\ loading' = loading - 1
    /\ \/ \E pkgs \in Listings :
            loadq' = Append(loadq, [packages |-> pkgs, error |-> <<>>])
       \/ loadq' = Append(loadq, [packages |-> <<>>, error |-> <<ErrChar>>])
    /\ UNCHANGED <<dlg, package_input, installed_list, status_label, loads,
                   lastLoaded>>
    /\ UNCHANGED <<ideVars, twVars, pipVars>>

\* main.py:945-963, _on_installed_loaded, the slot of installed_loaded
OnInstalledLoaded ==
    /\ loadq # <<>>
    /\ loadq' = Tail(loadq)
    /\ lastLoaded' = [packages |-> Head(loadq).packages,
                      error |-> Head(loadq).error,
                      had |-> Len(installed_list),
                      n |-> lastLoaded.n + 1]
    /\ LET packages == Head(loadq).packages
           error == Head(loadq).error
           cleared == ClearInstalled(installed_list)
       IN IF error # <<>>
          THEN /\ installed_list' = cleared
               /\ status_label' = "Error"
          ELSE /\ installed_list' = cleared \o SortedByLower(FilterPackages(packages))
               /\ status_label' = "Count"
    /\ UNCHANGED <<dlg, package_input, loads, loading>>
    /\ UNCHANGED <<ideVars, twVars, pipVars>>

\* main.py:965-967, _on_select_installed: an item of the list is clicked
OnSelectInstalled(i) ==
    /\ dlg = "open"
    /\ i \in 1..Len(installed_list)
    /\ package_input' = installed_list[i]
    /\ UNCHANGED <<dlg, installed_list, status_label, loads, loading, loadq,
                   lastLoaded>>
    /\ UNCHANGED <<ideVars, twVars, pipVars>>

\* the user types a package name into the line edit
TypeName(n) ==
    /\ dlg = "open"
    /\ package_input # n
    /\ package_input' = n
    /\ UNCHANGED <<dlg, installed_list, status_label, loads, loading, loadq,
                   lastLoaded>>
    /\ UNCHANGED <<ideVars, twVars, pipVars>>

\* main.py:615-616 and 641, _run_pip_command: the thread of run is started
RunPipCommand(args) ==
    /\ nextPip <= MaxPips
    /\ pip_args' = [pip_args EXCEPT ![nextPip] = args]
    /\ pip_pc' = [pip_pc EXCEPT ![nextPip] = "spawn"]
    /\ nextPip' = nextPip + 1
    /\ UNCHANGED <<pip_child, pip_script, pip_todo, pip_pipe, pip_line,
                   pip_emitted, pip_finish, timerq>>

\* main.py:969-978, _install (the dialog's parent is the main window)
Install ==
    /\ dlg = "open"
    /\ LET name == Strip(package_input)
       IN IF name = <<>>
          THEN UNCHANGED <<status_label, pipVars>>
          ELSE /\ status_label' = "Installing"
               /\ RunPipCommand([cmd |-> "install", name |-> name])
    /\ UNCHANGED <<dlg, package_input, installed_list, loads, loading, loadq,
                   lastLoaded>>
    /\ UNCHANGED <<ideVars, twVars>>

\* main.py:980-996, _uninstall, with the answer to its question
Uninstall ==
    /\ dlg = "open"
    /\ LET name == Strip(package_input)
       IN IF name = <<>>
          THEN UNCHANGED <<status_label, pipVars>>
          ELSE \E yes \in BOOLEAN :
                 IF yes
                 THEN /\ status_label' = "Uninstalling"
                      /\ RunPipCommand([cmd |-> "uninstall", name |-> name])
                 ELSE UNCHANGED <<status_label, pipVars>>
    /\ UNCHANGED <<dlg, package_input, installed_list, loads, loading, loadq,
                   lastLoaded>>
    /\ UNCHANGED <<ideVars, twVars>>

\* -------------------------------------------- main.py: _run_pip_command
PipTexts == TextsUpTo({OutChar, NL}, MaxPipChars)

\* a line of pip: on_output is scheduled with it and append_text emitted
\* (main.py:625-627, 629-631, 634-636)
PipEmit(q, t) == Append(q, [sig |-> "append_text", text |-> t])
PipSchedule(tq, t) == Append(tq, [kind |-> "on_output", text |-> t])

\* main.py:633-637: after the except branch the finally block runs
AfterPipExcept_NoFinally == "done"
AfterPipExcept == "finally"

\* main.py:618-623, Popen; or it raises, and the except branch
\* (main.py:633-636) reports str(e)
Pip_Popen(p) ==
    /\ pip_pc[p] = "spawn"
    /\ \/ \E o \in PipTexts, e \in PipTexts :
            /\ Len(o) + Len(e) <= MaxPipChars
            /\ pip_child' = [pip_child EXCEPT ![p] = "alive"]
            /\ pip_script' = [pip_script EXCEPT ![p] = [stdout |-> o, stderr |-> e]]
            /\ pip_todo' = [pip_todo EXCEPT ![p] = [stdout |-> o, stderr |-> e]]
            /\ pip_pc' = [pip_pc EXCEPT ![p] = "stdout"]
            /\ UNCHANGED <<uiq, timerq>>
       \/ /\ pip_pc' = [pip_pc EXCEPT ![p] = AfterPipExcept]
          /\ timerq' = PipSchedule(timerq, <<ErrChar>>)
          /\ uiq' = PipEmit(uiq, <<ErrChar>>)
          /\ UNCHANGED <<pip_child, pip_script, pip_todo>>
    /\ UNCHANGED <<nextPip, pip_args, pip_pipe, pip_line, pip_emitted, pip_finish>>
    /\ UNCHANGED <<backVars, consoleVars, twVars, dlgVars>>

\* pip writes its next character to one of its pipes, which has room
Pip_ChildWrite(p, s) ==
    /\ pip_child[p] = "alive"
    /\ pip_todo[p][s] # <<>>
    /\ Len(pip_pipe[p][s]) < PipeCap
    /\ pip_pipe' = [pip_pipe EXCEPT ![p][s] = Append(@, Head(pip_todo[p][s]))]
    /\ pip_todo' = [pip_todo EXCEPT ![p][s] = Tail(@)]
    /\ UNCHANGED <<nextPip, pip_args, pip_pc, pip_child, pip_script, pip_line,
                   pip_emitted, pip_finish, timerq>>
    /\ UNCHANGED <<ideVars, twVars, dlgVars>>

\* pip has written all it writes and exits, with whatever status
Pip_ChildExit(p) ==
    /\ pip_child[p] = "alive"
    /\ \A s \in Streams : pip_todo[p][s] = <<>>
    /\ pip_child' = [pip_child EXCEPT ![p] = "exited"]
    /\ UNCHANGED <<nextPip, pip_args, pip_pc, pip_script, pip_todo, pip_pipe,
                   pip_line, pip_emitted, pip_finish, timerq>>
    /\ UNCHANGED <<ideVars, twVars, dlgVars>>

\* main.py:624-627 and 628-631, for line in process.stdout / stderr: the
\* file object takes a character out of the pipe; with a line terminator
\* the line is complete and the body of the loop runs
Pip_Read(p, s) ==
    /\ pip_pc[p] = s
    /\ pip_pipe[p][s] # <<>>
    /\ pip_pipe' = [pip_pipe EXCEPT ![p][s] = Tail(@)]
    /\ LET line == Append(pip_line[p], Head(pip_pipe[p][s]))
       IN IF Head(pip_pipe[p][s]) = NL
          THEN /\ timerq' = PipSchedule(timerq, line)
               /\ uiq' = PipEmit(uiq, line)
               /\ pip_emitted' = [pip_emitted EXCEPT ![p][s] = @ \o line]
               /\ pip_line' = [pip_line EXCEPT ![p] = <<>>]
          ELSE /\ pip_line' = [pip_line EXCEPT ![p] = line]
               /\ UNCHANGED <<timerq, uiq, pip_emitted>>
    /\ UNCHANGED <<nextPip, pip_args, pip_pc, pip_child, pip_script, pip_todo,
                   pip_finish>>
    /\ UNCHANGED <<backVars, consoleVars, twVars, dlgVars>>

\* end of file of the stream: an unterminated last line is the last line
\* of the loop, and the loop ends
Pip_Eof(p, s) ==
    /\ pip_pc[p] = s
    /\ pip_pipe[p][s] = <<>>
    /\ pip_child[p] = "exited"
    /\ IF pip_line[p] # <<>>
       THEN /\ timerq' = PipSchedule(timerq, pip_line[p])
            /\ uiq' = PipEmit(uiq, pip_line[p])
            /\ pip_emitted' = [pip_emitted EXCEPT ![p][s] = @ \o pip_line[p]]
       ELSE UNCHANGED <<timerq, uiq, pip_emitted>>
    /\ pip_line' = [pip_line EXCEPT ![p] = <<>>]
    /\ pip_pc' = [pip_pc EXCEPT ![p] = IF s = "stdout" THEN "stderr" ELSE "wait"]
    /\ UNCHANGED <<nextPip, pip_args, pip_child, pip_script, pip_todo, pip_pipe,
                   pip_finish>>
    /\ UNCHANGED <<backVars, consoleVars, twVars, dlgVars>>

\* main.py:632, process.wait()
Pip_Wait(p) ==
    /\ pip_pc[p] = "wait"
    /\ pip_child[p] = "exited"
    /\ pip_pc' = [pip_pc EXCEPT ![p] = "finally"]
    /\ UNCHANGED <<nextPip, pip_args, pip_child, pip_script, pip_todo, pip_pipe,
                   pip_line, pip_emitted, pip_finish, timerq>>
    /\ UNCHANGED <<ideVars, twVars, dlgVars>>

\* main.py:637-639, the finally block: on_finish is scheduled
Pip_Finally(p) ==
    /\ pip_pc[p] = "finally"
    /\ timerq' = Append(timerq, [kind |-> "on_finish", text |-> <<>>])
    /\ pip_finish' = [pip_finish EXCEPT ![p] = @ + 1]
    /\ pip_pc' = [pip_pc EXCEPT ![p] = "done"]
    /\ UNCHANGED <<nextPip, pip_args, pip_child, pip_script, pip_todo, pip_pipe,
                   pip_line, pip_emitted>>
    /\ UNCHANGED <<ideVars, twVars, dlgVars>>

\* the sequence q without its i-th element
RemoveAt(q, i) == SubSeq(q, 1, i - 1) \o SubSeq(q, i + 1, Len(q))

\* a callback scheduled with QTimer.singleShot(0, ...) from the thread of
\* run is called: on_output is the dialog's _set_status (main.py:926-927),
\* on_finish its refresh_installed (main.py:929-931)
TimerCallback(i) ==
    /\ i \in 1..Len(timerq)
    /\ timerq' = RemoveAt(timerq, i)
    /\ IF timerq[i].kind = "on_output"
       THEN /\ status_label' = OutputStatus(timerq[i].text)
            /\ UNCHANGED <<loads, loading>>
       ELSE RefreshInstalled
    /\ UNCHANGED <<dlg, package_input, installed_list, loadq, lastLoaded>>
    /\ UNCHANGED <<nextPip, pip_args, pip_pc, pip_child, pip_script, pip_todo,
                   pip_pipe, pip_line, pip_emitted, pip_finish>>
    /\ UNCHANGED <<ideVars, twVars>>

\* ------------------------------------------------------- specification
Next ==
    \/ RunCode_Rejected
    \/ RunCode_Accepted
    \/ ClearButton
    \/ UI_Dispatch
    \/ \E k \in Keys : KeyPressEvent(k)
    \/ DelayedInput
    \/ \E r \in Runs : W_Popen(r)
    \/ \E r \in Runs : W_Assign(r)
    \/ \E r \in Runs : W_Wait(r)
    \/ \E r \in Runs : W_Finally(r)
    \/ \E r \in Runs : ChildExit(r)
    \/ \E r \in Runs, s \in Streams : R_Line(r, s)
    \/ \E r \in Runs, s \in Streams : R_Eof(r, s)
    \/ \E r \in Runs : P_Poll(r)
    \/ \E r \in Runs : P_Get(r)
    \/ \E r \in Runs : P_Write(r)

Spec == Init /\ [][Next]_vars

\* the program when the user only presses Run: no key reaches the console
\* and the Clear button is not pressed, so no line is ever submitted and
\* the stdin pumps, which find their queue empty, do nothing but wait
NextRunOnly ==
    \/ RunCode_Rejected
    \/ RunCode_Accepted
    \/ UI_Dispatch
    \/ \E r \in Runs : W_Popen(r)
    \/ \E r \in Runs : W_Assign(r)
    \/ \E r \in Runs : W_Wait(r)
    \/ \E r \in Runs : W_Finally(r)
    \/ \E r \in Runs : ChildExit(r)
    \/ \E r \in Runs, s \in Streams : R_Line(r, s)
    \/ \E r \in Runs, s \in Streams : R_Eof(r, s)

SpecRunOnly == Init /\ [][NextRunOnly]_vars

\* test.py and old.py: one run of run_code, its child, its two readers and
\* the GUI thread that shows what they emit
NextTypewriter ==
    \/ TW_RunCode
    \/ TW_Popen
    \/ \E s \in Streams : TW_ChildWrite(s)
    \/ TW_ChildExit
    \/ Out_Read
    \/ Out_Eof
    \/ Out_Poll
    \/ Out_Peek
    \/ Err_Line
    \/ Err_Eof
    \/ TW_Monitor
    \/ TW_JoinOut
    \/ TW_JoinErr
    \/ TW_Finished
    \/ TW_Finally
    \/ TW_UI_Dispatch

SpecTypewriter == Init /\ [][NextTypewriter]_vars

\* the package installer dialog: its listing, and the pip commands it runs
NextListing ==
    \/ OpenPackageInstaller
    \/ RefreshButton
    \/ LoadInstalled
    \/ OnInstalledLoaded
    \/ \E i \in 1..MaxPkgs : OnSelectInstalled(i)

SpecListing == Init /\ [][NextListing]_vars

\* the dialog's Install and Uninstall and the pip commands they run; the
\* threads of _load_installed, which touch nothing of a pip command, are
\* left to SpecListing
NextPip ==
    \/ OpenPackageInstaller
    \/ \E n \in TypedNames : TypeName(n)
    \/ Install
    \/ Uninstall
    \/ \E p \in Pips : Pip_Popen(p)
    \/ \E p \in Pips, s \in Streams : Pip_ChildWrite(p, s)
    \/ \E p \in Pips : Pip_ChildExit(p)
    \/ \E p \in Pips, s \in Streams : Pip_Read(p, s)
    \/ \E p \in Pips, s \in Streams : Pip_Eof(p, s)
    \/ \E p \in Pips : Pip_Wait(p)
    \/ \E p \in Pips : Pip_Finally(p)
    \/ \E i \in 1..(MaxPipChars + 1) : TimerCallback(i)

SpecPip == Init /\ [][NextPip]_vars

\* one kind of pip command, install of one package, and the threads of
\* _run_pip_command it starts, up to the scheduling of their callbacks
NextPipRun ==
    \/ OpenPackageInstaller
    \/ TypeName(N_six)
    \/ Install
    \/ \E p \in Pips : Pip_Popen(p)
    \/ \E p \in Pips, s \in Streams : Pip_ChildWrite(p, s)
    \/ \E p \in Pips : Pip_ChildExit(p)
    \/ \E p \in Pips, s \in Streams : Pip_Read(p, s)
    \/ \E p \in Pips, s \in Streams : Pip_Eof(p, s)
    \/ \E p \in Pips : Pip_Wait(p)
    \/ \E p \in Pips : Pip_Finally(p)

SpecPipRun == Init /\ [][NextPipRun]_vars


\* main.py: the runs and what arms the console: the request_input signals
\* of the workers and of the delayed_input threads, which the Return key
\* starts; no other key, no Clear button, and no stdin pump, which touches
\* neither the console nor the signals
NextCapture ==
    \/ RunCode_Accepted
    \/ UI_Dispatch
    \/ KeyPressEvent("Return")
    \/ DelayedInput
    \/ \E r \in Runs : W_Popen(r)
    \/ \E r \in Runs : W_Assign(r)
    \/ \E r \in Runs : W_Wait(r)
    \/ \E r \in Runs : W_Finally(r)
    \/ \E r \in Runs : ChildExit(r)
    \/ \E r \in Runs, s \in Streams : R_Line(r, s)
    \/ \E r \in Runs, s \in Streams : R_Eof(r, s)

SpecCapture == Init /\ [][NextCapture]_vars

\* SpecPipRun with its threads and processes scheduled fairly: the thread
\* of run and the pip process take their next step when they can (a read
\* returns when the pipe holds something, a write when the pipe has room);
\* nothing is required of the user
PipFairness ==
    \A p \in Pips :
        /\ WF_vars(Pip_Popen(p))
        /\ \A s \in Streams : WF_vars(Pip_ChildWrite(p, s))
        /\ WF_vars(Pip_ChildExit(p))
        /\ \A s \in Streams : WF_vars(Pip_Read(p, s))
        /\ \A s \in Streams : WF_vars(Pip_Eof(p, s))
        /\ WF_vars(Pip_Wait(p))
        /\ WF_vars(Pip_Finally(p))

SpecPipLive == Init /\ [][NextPipRun]_vars /\ PipFairness

\* test.py and old.py: the runs of run_code side by side, with the lines
\* the user submits
NextTwInput ==
    \/ Ex_RunCode
    \/ \E r \in Execs : Ex_Popen(r)
    \/ \E c \in Execs : Ex_ChildExit(c)
    \/ \E r \in Execs : Ex_Poll(r)
    \/ \E r \in Execs : Ex_Get(r)
    \/ \E r \in Execs : Ex_Write(r)
    \/ \E r \in Execs : Ex_Join(r)
    \/ \E r \in Execs : Ex_Finally(r)
    \/ \E r \in Execs : Rd_Read(r)
    \/ \E r \in Execs : Rd_Eof(r)
    \/ \E r \in Execs : Rd_Poll(r)
    \/ Ex_UI_Dispatch
    \/ Ex_Return
    \/ Ex_DelayedInput

SpecTwInput == Init /\ [][NextTwInput]_vars

\* ================================================================ claims
InProgress(r) == wpc[r] \notin {"none", "done"}
Finished(r) == termCount[r] >= 1
Contains(t, ch) == \E i \in 1..Len(t) : t[i] = ch
\* the text of b from offset p to the end
BufferFrom(b, p) == IF p >= Len(b) THEN <<>> ELSE SubSeq(b, p + 1, Len(b))
IsPrefix(a, b) == Len(a) <= Len(b) /\ SubSeq(b, 1, Len(a)) = a

\* C1: while a buffer run is in progress a further run_code call starts no
\* new child, so at most one child started by run_code is alive at any time.
C1_AtMostOneChildAlive ==
    Cardinality({r \in Runs : child[r] = "alive"}) <= 1

\* C2: a run_code call rejected because a process is running changes no
\* state (console not cleared, input_queue not replaced, no file written,
\* current_process unchanged), emits exactly one warning line, and the
\* running session's input delivery proceeds as if the call had not been
\* made: nothing of the warning ever reaches the stdin of a child.
C2_RejectedRunChangesNothing ==
    [][/\ RunCode_Rejected =>
            /\ buf' = buf \o WarnText
            /\ UNCHANGED <<current_process, input_queue, filesWritten, uiq>>
            /\ UNCHANGED <<workerVars, readerVars, pumpVars, closeVars>>
       /\ \A r \in Runs : \A i \in 1..Len(stdinLog'[r]) :
            ~Contains(stdinLog'[r][i].text, WarnChar)]_vars

\* C3: a session is marked finished (its worker has set current_process
\* back to None) only after both of its readers have reached end of stream
\* and emitted all their lines, and no chunk of the session is emitted
\* after that.
C3_FinishedAfterReaders ==
    /\ [](\A r \in Runs : Finished(r) =>
            \A s \in Streams : /\ rdr[r][s] # "run"
                               /\ emitted[r][s] = script[r][s])
    /\ [][\A r \in Runs : Finished(r) => emitted'[r] = emitted[r]]_vars

C3_Witness ==
    \E r \in Runs : /\ Finished(r)
                    /\ \A s \in Streams : /\ rdr[r][s] = "done"
                                          /\ emitted[r][s] # <<>>

C5_CaretNeverBeforeStart ==
    [][\A k \in Keys : (waiting_for_input /\ KeyPressEvent(k)) =>
            caret' >= input_start_pos']_vars

\* C6: Return while waiting_for_input emits input_submitted once, with the
\* buffer text from input_start_pos to the end, appends a line terminator
\* to the buffer and leaves the console read-only and not waiting; Return
\* while not waiting emits nothing.
C6_ReturnSubmitsInputText ==
    [][KeyPressEvent("Return") =>
         IF waiting_for_input
         THEN /\ Len(subs') = Len(subs) + 1
              /\ subs'[Len(subs')].text = BufferFrom(buf, input_start_pos)
              /\ buf' = Append(buf, NL)
              /\ ~waiting_for_input'
              /\ readOnly'
         ELSE subs' = subs]_vars

\* C7: a line submitted while the session's child (current_process) is
\* alive is written, while that child stays alive, to that child's stdin
\* only, as the line and one newline, at most once, in order of submission.
C7_LinesReachTheirChildInOrder ==
    /\ \A r \in Runs : \A i \in 1..Len(stdinLog[r]) :
          LET e == stdinLog[r][i]
              sub == subs[e.id]
          IN (sub.cp # None /\ child[sub.cp] = "alive") =>
                /\ r = sub.cp
                /\ e.text = Append(sub.text, NL)
    /\ \A r \in Runs : \A i, j \in 1..Len(stdinLog[r]) :
          i < j => stdinLog[r][i].id < stdinLog[r][j].id
    /\ \A r, q \in Runs : \A i \in 1..Len(stdinLog[r]) :
          \A j \in 1..Len(stdinLog[q]) :
              stdinLog[r][i].id = stdinLog[q][j].id => (r = q /\ i = j)

\* C8: a line submitted when no session is alive is never written to the
\* stdin of any child. (Stated for the behaviours in which two runs are
\* never in progress at once, so that C1 plays no part.)
C8_StaleLineNeverWritten ==
    \/ overlap
    \/ \A r \in Runs : \A i \in 1..Len(stdinLog[r]) :
          LET sub == subs[stdinLog[r][i].id]
          IN ~(sub.live = {} /\ sub.cp = None)

\* C9: the three pipe endpoints of a run are closed once each, after the
\* child has exited, in the order stdin, stdout, stderr.
C9_PipesClosedInOrder ==
    \A r \in Runs :
        /\ IsPrefix(closeLog[r], <<"stdin", "stdout", "stderr">>)
        /\ ~closedAlive[r]

SpawnFailed(r) == child[r] = "none" /\ wpc[r] \in {"finally", "done"}

\* C11: when spawning the child fails, the worker emits exactly one chunk,
\* the error line, and no request_input; neither reader nor the stdin pump
\* of that run is ever started; the only later step of the worker is its
\* finally block, which emits nothing and leaves current_process None.
C11_SpawnFailureReported ==
    /\ [](\A r \in Runs : SpawnFailed(r) =>
            /\ \A s \in Streams : rdr[r][s] = "idle" /\ emitted[r][s] = <<>>
            /\ ppc[r] = "idle"
            /\ stdinLog[r] = <<>>)
    /\ [][\A r \in Runs :
            /\ (wpc[r] = "spawn" /\ wpc'[r] # "spawn" /\ child'[r] = "none") =>
                  /\ Len(uiq') = Len(uiq) + 1
                  /\ SubSeq(uiq', 1, Len(uiq)) = uiq
                  /\ uiq'[Len(uiq')].sig = "append_text"
                  /\ Cardinality({i \in 1..Len(uiq'[Len(uiq')].text) :
                                    uiq'[Len(uiq')].text[i] = ErrChar}) = 1
                  /\ SpawnFailed(r)'
            /\ (SpawnFailed(r) /\ wpc'[r] # wpc[r]) =>
                  /\ uiq' = uiq
                  /\ current_process' = None
                  /\ wpc'[r] = "done"]_vars

C11_Witness ==
    \E r \in Runs : /\ SpawnFailed(r)
                    /\ wpc[r] = "done"
                    /\ current_process = None
                    /\ uiq = <<>>
                    /\ buf = ErrText

\* C12: once the end of every session has been processed (no run is in
\* progress) the console is not waiting for input.
C12_NoCaptureWithoutSession ==
    (\A r \in Runs : ~InProgress(r)) => (~waiting_for_input /\ readOnly)

\* C13: while the console is waiting for input, from the enable_input that
\* began the capture to the submit that ends it, input_start_pos does not
\* change.
C13_CaptureStartFixed ==
    [][(waiting_for_input /\ waiting_for_input') =>
            input_start_pos' = input_start_pos]_vars

\* C18: read_stdout of test.py and old.py emits request_input only when,
\* after a character other than a newline, no further character has
\* arrived by the end of the idle wait and the buffer does not end in a
\* newline; the buffer is cleared with it. (That the child is alive is
\* what the poll before the wait has found: read_stdout is at its wait
\* only then.)
C18_RequestInputOnlyWhenIdle ==
    [][(out_pc = "peek" /\ Len(uiq') = Len(uiq) + 1
          /\ uiq'[Len(uiq')].sig = "request_input") =>
            /\ ~last_was_newline
            /\ tw_pipe["stdout"] = <<>>
            /\ buffer # <<>> /\ buffer[Len(buffer)] # NL
            /\ buffer' = <<>>]_vars

\* C19: the finished line of a run is emitted only after both readers have
\* reached end of stream, and no reader emits a chunk after it.
C19_FinishedLineIsLast ==
    /\ [](tw_finished => (out_pc = "done" /\ err_pc = "done"))
    /\ [][tw_finished => tw_emitted' = tw_emitted]_vars

\* C20: for each stream of a run of test.py and old.py, the chunks its
\* reader has emitted are, in order, characters the child wrote to the
\* stream, and when the reader has reached end of stream they are all of
\* them, each once.
C20_TypewriterChunksAreTheStream ==
    /\ \A s \in Streams : IsPrefix(tw_emitted[s], tw_script[s])
    /\ out_pc = "done" => tw_emitted["stdout"] = tw_script["stdout"]
    /\ err_pc = "done" => tw_emitted["stderr"] = tw_script["stderr"]

\* the names of PkgNames lower-cased and with "-" replaced by "_", written
\* out
ClaimNormalized(n) ==
    CASE n = N_PyQt6 -> <<"p", "y", "q", "t", "6">>
      [] n = N_PyQt6_sip_hyphen -> <<"p", "y", "q", "t", "6", "_", "s", "i", "p">>
      [] n = N_PyQt6_sip -> <<"p", "y", "q", "t", "6", "_", "s", "i", "p">>
      [] n = N_PyQt6_Qt6 -> <<"p", "y", "q", "t", "6", "_", "q", "t", "6">>
      [] n = N_pyqt5 -> <<"p", "y", "q", "t", "5">>
      [] n = N_six -> <<"s", "i", "x">>
\* pyqt6, pyqt6_qt6, pyqt6_sip
ClaimDenylist ==
    {<<"p", "y", "q", "t", "6">>,
     <<"p", "y", "q", "t", "6", "_", "q", "t", "6">>,
     <<"p", "y", "q", "t", "6", "_", "s", "i", "p">>}
\* how often x occurs in the sequence l
Occurrences(l, x) == Cardinality({i \in 1..Len(l) : l[i] = x})

\* C14: after _on_installed_loaded has processed a listing, an entry of the
\* listing is in the installed list if and only if its name, lower-cased
\* and with "-" replaced by "_", is none of pyqt6, pyqt6_qt6, pyqt6_sip;
\* every other entry is there as often as the listing has it.
C14_ListShowsAllButDenied ==
    (lastLoaded.n > 0 /\ lastLoaded.error = <<>>) =>
        /\ \A n \in PkgNames :
              Occurrences(installed_list, n) =
                  IF ClaimNormalized(n) \in ClaimDenylist THEN 0
                  ELSE Occurrences(lastLoaded.packages, n)
        /\ \A i \in 1..Len(installed_list) : installed_list[i] \in PkgNames

C14_Witness ==
    /\ lastLoaded.n > 0
    /\ lastLoaded.error = <<>>
    /\ lastLoaded.packages = <<N_PyQt6_sip_hyphen>>
    /\ lastLoaded.had > 0
    /\ installed_list = <<>>
    /\ status_label = "Count"

\* C15: no pip uninstall is started for a package whose normalized name is
\* one of the protected names.
C15_NoUninstallOfProtected ==
    \A p \in Pips :
        pip_args[p].cmd = "uninstall" =>
            ClaimNormalized(pip_args[p].name) \notin ClaimDenylist

C17_FailedListingClearsList ==
    /\ [](/\ loads = loading + Len(loadq) + lastLoaded.n
          /\ \A i \in 1..Len(loadq) :
                loadq[i].error # <<>> => loadq[i].packages = <<>>
          /\ lastLoaded.error # <<>> => installed_list = <<>>)
    /\ [][(lastLoaded' # lastLoaded /\ lastLoaded'.error # <<>>) =>
              /\ installed_list' = <<>>
              /\ status_label' = "Error"]_vars

C17_Witness ==
    /\ lastLoaded.error # <<>>
    /\ lastLoaded.had > 0
    /\ installed_list = <<>>
    /\ status_label = "Error"

\* C21: while waiting_for_input, Backspace or Left with the caret at or
\* before input_start_pos changes neither buffer nor caret; Home puts the
\* caret exactly at input_start_pos and leaves the buffer (HomeCaret is the
\* caret the Home branch sets, in whatever capturing state the key
\* arrives); Backspace or Left with the caret after input_start_pos does
\* what the text widget does with the key.
C21_KeysClampedAtStart ==
    /\ [](waiting_for_input => HomeCaret = input_start_pos)
    /\ [][waiting_for_input =>
            /\ KeyPressEvent("Home") => (caret' = input_start_pos /\ buf' = buf)
            /\ \A k \in {"Backspace", "Left"} :
                 (caret <= input_start_pos /\ KeyPressEvent(k)) =>
                     (buf' = buf /\ caret' = caret)
            /\ (caret > input_start_pos /\ KeyPressEvent("Backspace")) =>
                     (buf' = DeleteBefore(buf, caret) /\ caret' = caret - 1)
            /\ (caret > input_start_pos /\ KeyPressEvent("Left")) =>
                     (buf' = buf /\ caret' = caret - 1)]_vars

\* C29: while waiting_for_input, input_start_pos is at most the length of
\* the console's text.
C29_StartWithinBuffer ==
    waiting_for_input => input_start_pos <= Len(buf)

\* C28: a line written to a child's stdin consists of characters the user
\* typed, followed by the newline _pump_stdin adds: no character of the
\* program's output is part of it. (Stated for the behaviours in which two
\* runs are never in progress at once, so that C1 plays no part; a line
\* that holds the warning text of a rejected run_code, which is no output
\* of the program, is left aside.)
C28_SubmittedLineIsTypedText ==
    \/ overlap
    \/ \A r \in Runs : \A i \in 1..Len(stdinLog[r]) :
          LET t == stdinLog[r][i].text
          IN \/ Contains(t, WarnChar)
             \/ /\ t[Len(t)] = NL
                /\ \A j \in 1..(Len(t) - 1) : t[j] = KeyChar

\* current_process holds a child that has not exited
SessionAlive == \E r \in Runs : current_process = r /\ child[r] = "alive"
\* the slot of a request_input signal runs
RequestInputProcessed ==
    uiq # <<>> /\ Head(uiq).sig = "request_input" /\ uiq' = Tail(uiq)

C26_PumpTakesOwnLinesOnly ==
    [][overlap' \/ \A r \in Runs :
          (ppc[r] = "get" /\ ppc'[r] = "write") => r = nextRun - 1]_vars

\* C24: every thread of _run_pip_command that has spawned pip eventually
\* schedules on_finish, whatever pip writes to its two pipes (without the
\* scheduling on_finish is never invoked).
C24_PipEventuallyFinishes ==
    \A p \in Pips : (pip_child[p] = "alive") ~> (pip_finish[p] = 1)

\* C23: in test.py the input loop of a run writes to its child only lines
\* submitted during that run: a line submitted when no child was alive,
\* before the run_code call of run c, is never written by the loop of run
\* c to the stdin of its child.
C23_NoLineFromBeforeTheRun ==
    \A c \in Execs : \A i \in 1..Len(ex_stdin[c]) :
        LET e == ex_stdin[c][i]
        IN ~(e.by = c /\ ~e.line.alive /\ e.line.runs < c)

\* C27: in test.py read_stdout of a run reads from the stdout of that
\* run's child only, and the input loop of a run writes to the stdin of
\* that run's child only.
C27_RunUsesItsOwnChild ==
    /\ \A r \in Execs : rd_from[r] \subseteq {r}
    /\ \A c \in Execs : \A i \in 1..Len(ex_stdin[c]) : ex_stdin[c][i].by = c

\* C25: a write to a child's stdin that fails is swallowed: the step emits
\* no signal and leaves the console alone, and the thread goes on as it
\* would have: in main.py the worker is untouched by the end of
\* _pump_stdin, in test.py the input loop of execute stays in its loop.
C25_FailedWriteIsSwallowed ==
    [][/\ \A r \in Runs :
            (ppc[r] = "write" /\ ppc'[r] # "write" /\ stdinLog' = stdinLog) =>
                (uiq' = uiq /\ UNCHANGED consoleVars /\ wpc' = wpc)
       /\ \A r \in Execs :
            (ex_pc[r] = "write" /\ ex_pc'[r] # "write" /\ ex_stdin' = ex_stdin) =>
                (uiq' = uiq /\ UNCHANGED consoleVars /\ ex_pc'[r] = "loop")]_vars

====
